---- MODULE Spec2Model ----
(***************************************************************************)
(* Call-centre session reconstruction (keith-acd).                         *)
(*                                                                         *)
(* The module models src/test04.py, the variant of the pipeline that has   *)
(* the watermark flag, the retrying connector and push_data_to_db:         *)
(*   - find_hold_time         : the hold-time analyzer (SpecHold)          *)
(*   - the record_of_calls    : the session reconstructor (SpecRecon)      *)
(*     expression                                                          *)
(*   - main, connect_and_process, get_database_connection,                 *)
(*     push_data_to_db        : the sequential per-shard job (Spec)        *)
(* and process_call_log of src/test03.py, the reconstructor of the         *)
(* concurrent variant of the job (SpecRecon).                              *)
(* Timestamps, durations and payloads are integers; NaT stands for every   *)
(* missing value (pd.NaT, NaN, None, SQL NULL) of a numeric or time field. *)
(***************************************************************************)
EXTENDS Integers, Sequences, FiniteSets, TLC

VARIABLES
    h_group,      \* find_hold_time: the group handed to it (rows in sorted order)
    h_cats,       \* find_hold_time: categories of the categorical 'event' column
    h_result,     \* find_hold_time: its return value, NaT while not yet called
    r_rows,       \* reconstructor: the rows of asterisk.queue_log it is given
    r_records,    \* reconstructor: the SessionRecords of record_of_calls (test04.py)
    r_ran,        \* reconstructor: whether record_of_calls has been computed
    r_records03,  \* reconstructor: the rows process_call_log returned (test03.py)
    r_ran03,      \* reconstructor: "no", "returned" or "raised"
    pbx,          \* registry: the descriptor of each shard, "ok" or "malformed"
    queue_log,    \* per shard: the flag column of asterisk.queue_log, row by row
    call_logs,    \* per shard: the rows of asterisk.call_logs
    m_pc,         \* main: "idle", "loop", "done", "raised" (uncaught exception), "killed"
    db_urls,      \* main: the list get_active_callcenter_db_urls returned
    m_i,          \* main: position of the for loop in db_urls
    window,       \* main: <<start_time, end_time>>
    started,      \* main: shards logged "Processing database URL" in this invocation
    completed,    \* main: shards logged "Processing completed" in this invocation
    conn_failed,  \* shards for which get_database_connection returned None
    p_pc,         \* connect_and_process: the step it is at ("none": not running)
    p_conn,       \* connect_and_process: "none", "open", "closed" (cursor and connection)
    g_attempt,    \* get_database_connection: the loop variable attempt
    g_tried,      \* get_database_connection: calls of psycopg2.connect made
    g_sleeps,     \* get_database_connection: the delays slept, in order
    g_result,     \* get_database_connection: "none" (running), "conn" or "None"
    call_log_data,    \* connect_and_process: the fetched rows, as a bag over row ids
    record_of_calls,  \* connect_and_process: the SessionRecords to persist
    push_result,  \* push_data_to_db: "none", "ok" (committed) or "failed" (rolled back)
    push_done     \* push_data_to_db: the rows whose INSERT had run when it ended

holdVars  == <<h_group, h_cats, h_result>>
reconVars == <<r_rows, r_records, r_ran, r_records03, r_ran03>>
mainVars  == <<m_pc, db_urls, m_i, window, started, completed, conn_failed>>
connVars  == <<g_attempt, g_tried, g_sleeps, g_result>>
runVars   == <<p_pc, p_conn, connVars, call_log_data, record_of_calls, push_result, push_done>>
pipeVars  == <<pbx, queue_log, call_logs, mainVars, runVars>>

-----------------------------------------------------------------------------
(* Bounds of the model *)

MaxTime == 2

MaxHoldTime == 4

MaxPayload == 2

MaxCalls == 2

MaxGroupLen == 5

MaxRows == 3

-----------------------------------------------------------------------------
(* Values *)

NaT == -1

Times == 1..MaxTime

HoldTimes == 0..MaxHoldTime

Payloads == 1..MaxPayload

Calls == 1..MaxCalls

TerminalEvents == {"EXITEMPTY", "COMPLETEAGENT", "COMPLETECALLER", "ABANDON"}

HoldEvents == {"HOLD", "UNHOLD", "COMPLETECALLER", "COMPLETEAGENT"}

CompleteEvents == {"COMPLETECALLER", "COMPLETEAGENT"}

AbandonEvents == {"ABANDON", "EXITEMPTY"}

-----------------------------------------------------------------------------
(* find_hold_time *)

\* Only the last UNHOLD row counts: the duration of the last cycle.
UnholdDiffSum_last_only(group) ==
    LET idx == {i \in 2..Len(group) : group[i].event = "UNHOLD"}
    IN IF idx = {} THEN 0
       ELSE LET i == CHOOSE j \in idx : \A k \in idx : k <= j
            IN group[i].time - group[i - 1].time

\* duration = time.diff(); rows with event == "UNHOLD"; sum of duration.
\* The first row's diff is NaT and is skipped by sum().
UnholdDiffSum(group) ==
    LET idx == {i \in 2..Len(group) : group[i].event = "UNHOLD"}
        RECURSIVE Sum(_)
        Sum(S) == IF S = {} THEN 0
                  ELSE LET i == CHOOSE j \in S : TRUE
                       IN (group[i].time - group[i - 1].time) + Sum(S \ {i})
    IN Sum(idx)

\* group['event'].iloc[-1] = 'UNHOLD'
SetLastUnhold(group) ==
    [group EXCEPT ![Len(group)].event = "UNHOLD"]

\* find_hold_time with the length test off by one: "if not group.shape[0] > 1".
find_hold_time_gt1(group, cats) ==
    IF ~(Len(group) > 1) THEN 0
    ELSE IF group[Len(group) - 1].event = "HOLD"
         THEN IF "UNHOLD" \in cats
              THEN UnholdDiffSum(SetLastUnhold(group))
              ELSE 0
         ELSE UnholdDiffSum(group)

\* cats: the categories of the categorical column 'event' (the event types
\* present in the whole call_log).  Assigning a value that is no category
\* raises TypeError, which the function's own except turns into 0.
find_hold_time(group, cats) ==
    IF ~(Len(group) > 2) THEN 0
    ELSE IF group[Len(group) - 1].event = "HOLD"
         THEN IF "UNHOLD" \in cats
              THEN UnholdDiffSum(SetLastUnhold(group))
              ELSE 0
         ELSE UnholdDiffSum(group)

-----------------------------------------------------------------------------
(* SpecHold: find_hold_time applied to time-sorted groups *)

HoldIdle ==
    /\ h_group = <<>>
    /\ h_cats = HoldEvents
    /\ h_result = NaT

HoldInit ==
    /\ h_group = <<>>
    /\ h_cats \in {HoldEvents, HoldEvents \ {"UNHOLD"}}
    /\ h_result = NaT

\* One more row of the sorted group (sort_values(["callid", "time"])).
AppendHoldRow ==
    /\ h_result = NaT
    /\ Len(h_group) < MaxGroupLen
    /\ \E ev \in h_cats, t \in HoldTimes :
          /\ (h_group # <<>> => t >= h_group[Len(h_group)].time)
          /\ h_group' = Append(h_group, [event |-> ev, time |-> t])
    /\ UNCHANGED <<h_cats, h_result>>

CallFindHoldTime ==
    /\ h_result = NaT
    /\ h_result' = find_hold_time(h_group, h_cats)
    /\ UNCHANGED <<h_group, h_cats>>

-----------------------------------------------------------------------------
(* Rows of asterisk.queue_log *)

\* data1 is the wait time of CONNECT, data2 the caller of ENTERQUEUE and the
\* call duration of COMPLETE*, data3 the wait time of ABANDON and EXITEMPTY.
EventRow(c, t, ev, p) ==
    [callid |-> c, time |-> t, event |-> ev, queuename |-> "Q1",
     agent  |-> IF ev \in {"CONNECT"} \cup HoldEvents THEN "A1" ELSE "NONE",
     data1  |-> IF ev = "CONNECT" THEN p ELSE NaT,
     data2  |-> IF ev \in CompleteEvents \cup {"ENTERQUEUE"} THEN p ELSE NaT,
     data3  |-> IF ev \in AbandonEvents THEN p ELSE NaT]

PayloadEvents == {"CONNECT"} \cup AbandonEvents \cup CompleteEvents

SourceRows ==
    {EventRow(c, t, ev, p) : c \in Calls, t \in Times, ev \in PayloadEvents, p \in Payloads}
    \cup
    {EventRow(c, t, ev, 1) : c \in Calls, t \in Times, ev \in {"ENTERQUEUE", "HOLD", "UNHOLD"}}

\* The orders in which a cursor can return a set of rows.
RECURSIVE RowOrders(_)
RowOrders(S) ==
    IF S = {} THEN {<<>>}
    ELSE UNION {{<<x>> \o o : o \in RowOrders(S \ {x})} : x \in S}

-----------------------------------------------------------------------------
(* The reconstructor: the record_of_calls expression of connect_and_process *)

Idx(call_log, evs) == {i \in 1..Len(call_log) : call_log[i].event \in evs}

\* sort_values(["callid", "time"]) restricted to one callid: ascending time,
\* rows of equal time in their order in the frame.
RECURSIVE SortByTime(_)
SortByTime(s) ==
    IF s = <<>> THEN <<>>
    ELSE LET rest == SortByTime(SubSeq(s, 1, Len(s) - 1))
             r    == s[Len(s)]
             k    == Cardinality({i \in 1..Len(rest) : rest[i].time <= r.time})
         IN SubSeq(rest, 1, k) \o <<r>> \o SubSeq(rest, k + 1, Len(rest))

\* .query("event in ('HOLD','UNHOLD','COMPLETECALLER','COMPLETEAGENT')")
\* .sort_values(["callid", "time"]).groupby("callid"): the group of callid c.
HoldGroup(call_log, c) ==
    SortByTime(SelectSeq(call_log, LAMBDA r : r.callid = c /\ r.event \in HoldEvents))

Categories(call_log) == {call_log[i].event : i \in 1..Len(call_log)}

\* The hold_duration column after the left merge and fillna(0).
HoldDuration(call_log, c) ==
    IF HoldGroup(call_log, c) = <<>> THEN 0
    ELSE find_hold_time(HoldGroup(call_log, c), Categories(call_log))

\* pivot_table(index=["callid", "waited_duration_abandon"], columns=["event"],
\* values="time", aggfunc='first'): the time of the first row of the group
\* (callid, data3, event) in frame order, NaT when the group is empty.
PivotFirst(call_log, c, d, ev) ==
    LET g == {i \in Idx(call_log, {ev}) : call_log[i].callid = c /\ call_log[i].data3 = d}
    IN IF g = {} THEN NaT
       ELSE call_log[CHOOSE i \in g : \A j \in g : i <= j].time

\* The keys (callid, waited_duration_abandon) of the pivot, for callid c.
PivotKeys(call_log, c) ==
    {call_log[i].data3 : i \in {j \in Idx(call_log, AbandonEvents) : call_log[j].callid = c}}

\* The rows of one side of a merge that carry callid c; {0} (no row: the
\* columns of that side are missing) when there is none.
Side(S) == IF S = {} THEN {0} ELSE S

\* The pivot merged with how="inner": a callid without a pivot row has no row.
PivotSide_inner(K) == K

\* The same for the pivot, whose rows are named by their key.
PivotSide(K) == IF K = {} THEN {NaT} ELSE K

\* The fill the other way round: waited_duration_abandon.fillna(waited_duration).
WaitedDuration_abandon_first(connectWait, abandonWait) ==
    IF abandonWait # NaT THEN abandonWait ELSE connectWait

\* waited_duration.fillna(waited_duration_abandon)
WaitedDuration(connectWait, abandonWait) ==
    IF connectWait # NaT THEN connectWait ELSE abandonWait

\* One row of record_of_calls: e, c, p index the ENTERQUEUE, CONNECT and
\* COMPLETE* row it was merged from, d is the pivot key (NaT: none).
RecordOf(call_log, id, e, d, c, p) ==
    [callid          |-> id,
     queuename       |-> IF e = 0 THEN "NaN" ELSE call_log[e].queuename,
     src             |-> IF e = 0 THEN NaT ELSE call_log[e].data2,
     ENTERQUEUE      |-> IF e = 0 THEN NaT ELSE call_log[e].time,
     ABANDON         |-> IF d = NaT THEN NaT ELSE PivotFirst(call_log, id, d, "ABANDON"),
     EXITEMPTY       |-> IF d = NaT THEN NaT ELSE PivotFirst(call_log, id, d, "EXITEMPTY"),
     CONNECT         |-> IF c = 0 THEN NaT ELSE call_log[c].time,
     COMPLETE        |-> IF p = 0 THEN NaT ELSE call_log[p].time,
     agent           |-> IF c = 0 THEN "NaN" ELSE call_log[c].agent,
     waited_duration |-> WaitedDuration(IF c = 0 THEN NaT ELSE call_log[c].data1, d),
     call_duration   |-> IF p = 0 THEN 0 ELSE call_log[p].data2,
     hold_duration   |-> HoldDuration(call_log, id),
     agent_completed |-> IF p = 0 THEN "NaN"
                         ELSE IF call_log[p].event = "COMPLETEAGENT" THEN "True" ELSE "False"]

\* The outer merges on callid: every combination of the rows of the four
\* frames that carry the callid, for every callid present in one of them.
MergedKeys(call_log) ==
    LET of(S, id) == {i \in S : call_log[i].callid = id}
        ids == {call_log[i].callid :
                   i \in Idx(call_log, {"ENTERQUEUE", "CONNECT"} \cup AbandonEvents \cup CompleteEvents)}
    IN UNION {
         { <<id, e, d, c, p>> :
              e \in Side(of(Idx(call_log, {"ENTERQUEUE"}), id)),
              d \in PivotSide(PivotKeys(call_log, id)),
              c \in Side(of(Idx(call_log, {"CONNECT"}), id)),
              p \in Side(of(Idx(call_log, CompleteEvents), id)) } : id \in ids }

\* .dropna(subset=["queuename"])
DropNaQueuename(call_log, keys) ==
    {k \in keys : k[2] # 0 /\ call_log[k[2]].queuename # "NaN"}

\* record_of_calls as a frame: its rows, keyed by the rows they were merged from.
RecordFrame(call_log) ==
    LET keys == DropNaQueuename(call_log, MergedKeys(call_log))
    IN [k \in keys |-> RecordOf(call_log, k[1], k[2], k[3], k[4], k[5])]

\* The SessionRecords of record_of_calls.
ProcessCallLog(call_log) ==
    LET f == RecordFrame(call_log) IN {f[k] : k \in DOMAIN f}

-----------------------------------------------------------------------------
(* process_call_log of src/test03.py, the reconstructor of the concurrent job *)

\* .query("event in ('HOLD', 'UNHOLD')").groupby("callid"): the group of
\* callid c, in frame order (this variant does not sort).
HoldGroup03(call_log, c) ==
    SelectSeq(call_log, LAMBDA r : r.callid = c /\ r.event \in {"HOLD", "UNHOLD"})

\* find_hold_time of test03.py has no except of its own: the TypeError of
\* assigning 'UNHOLD' to a categorical column without that category
\* propagates out of process_call_log.
HoldRaises03(group, cats) ==
    /\ Len(group) > 2
    /\ group[Len(group) - 1].event = "HOLD"
    /\ "UNHOLD" \notin cats

\* pivot_table(index=["callid"], columns=["event"], values="time", aggfunc="first")
PivotFirst03(call_log, c, ev) ==
    LET g == {i \in Idx(call_log, {ev}) : call_log[i].callid = c}
    IN IF g = {} THEN NaT
       ELSE call_log[CHOOSE i \in g : \A j \in g : i <= j].time

\* One row of the frame process_call_log returns; a = 1 when the pivot has a
\* row for the callid.  fillna: waited_duration, call_duration, hold_duration.
RecordOf03(call_log, id, e, a, c, p) ==
    [callid          |-> id,
     ENTERQUEUE      |-> IF e = 0 THEN NaT ELSE call_log[e].time,
     queuename       |-> IF e = 0 THEN "NaN" ELSE call_log[e].queuename,
     src             |-> IF e = 0 THEN NaT ELSE call_log[e].data2,
     ABANDON         |-> IF a = 0 THEN NaT ELSE PivotFirst03(call_log, id, "ABANDON"),
     EXITEMPTY       |-> IF a = 0 THEN NaT ELSE PivotFirst03(call_log, id, "EXITEMPTY"),
     CONNECT         |-> IF c = 0 THEN NaT ELSE call_log[c].time,
     agent           |-> IF c = 0 THEN "NaN" ELSE call_log[c].agent,
     data1           |-> IF c = 0 THEN NaT ELSE call_log[c].data1,
     waited_duration |-> IF c = 0 \/ call_log[c].data1 = NaT THEN 0 ELSE call_log[c].data1,
     COMPLETE        |-> IF p = 0 THEN NaT ELSE call_log[p].time,
     data2           |-> IF p = 0 THEN NaT ELSE call_log[p].data2,
     event           |-> IF p = 0 THEN "NaN" ELSE call_log[p].event,
     call_duration   |-> IF p = 0 \/ call_log[p].data2 = NaT THEN 0 ELSE call_log[p].data2,
     hold_duration   |-> IF HoldGroup03(call_log, id) = <<>> THEN 0
                         ELSE find_hold_time(HoldGroup03(call_log, id), Categories(call_log))]

\* The three outer merges of process_call_log; nothing drops the callids
\* that have no ENTERQUEUE row.
MergedKeys03(call_log) ==
    LET of(S, id) == {i \in S : call_log[i].callid = id}
        ids == {call_log[i].callid :
                   i \in Idx(call_log, {"ENTERQUEUE", "CONNECT"} \cup AbandonEvents \cup CompleteEvents)}
    IN UNION {
         { <<id, e, a, c, p>> :
              e \in Side(of(Idx(call_log, {"ENTERQUEUE"}), id)),
              a \in {IF of(Idx(call_log, AbandonEvents), id) = {} THEN 0 ELSE 1},
              c \in Side(of(Idx(call_log, {"CONNECT"}), id)),
              p \in Side(of(Idx(call_log, CompleteEvents), id)) } : id \in ids }

process_call_log_raises(call_log) ==
    \E i \in 1..Len(call_log) :
        HoldRaises03(HoldGroup03(call_log, call_log[i].callid), Categories(call_log))

process_call_log(call_log) ==
    {RecordOf03(call_log, k[1], k[2], k[3], k[4], k[5]) : k \in MergedKeys03(call_log)}

-----------------------------------------------------------------------------
(* SpecRecon: the reconstructors applied to the rows of one shard *)

\* Scenarios 3 and 4 of the design document in one log: a call that ends on
\* hold (ENTERQUEUE@0, CONNECT@5, HOLD@10, COMPLETEAGENT@40) and a call with
\* only a stray UNHOLD.
ScenarioRows ==
    {EventRow(1, 0, "ENTERQUEUE", 1), EventRow(1, 5, "CONNECT", 5),
     EventRow(1, 10, "HOLD", 1), EventRow(1, 40, "COMPLETEAGENT", 35),
     EventRow(2, 7, "UNHOLD", 1)}

\* The worked examples of the design document in one log: call 1 is answered
\* and completed by the agent (ENTERQUEUE@0, CONNECT@5 with wait 5,
\* COMPLETEAGENT@65 with duration 60), call 2 is abandoned (ENTERQUEUE@0,
\* ABANDON@30 with wait 30).
ExampleRows ==
    {EventRow(1, 0, "ENTERQUEUE", 1), EventRow(1, 5, "CONNECT", 5),
     EventRow(1, 65, "COMPLETEAGENT", 60),
     EventRow(2, 0, "ENTERQUEUE", 1), EventRow(2, 30, "ABANDON", 30)}

ReconIdle ==
    /\ r_rows = {}
    /\ r_records = {}
    /\ r_ran = FALSE
    /\ r_records03 = {}
    /\ r_ran03 = "no"

ReconInit ==
    /\ r_rows \in {{}, ScenarioRows, ExampleRows}
    /\ r_records = {}
    /\ r_ran = FALSE
    /\ r_records03 = {}
    /\ r_ran03 = "no"

\* The telephony system appends an event row to the log.
AppendRow ==
    /\ ~r_ran
    /\ r_ran03 = "no"
    /\ Cardinality(r_rows) < MaxRows
    /\ \E row \in SourceRows \ r_rows : r_rows' = r_rows \cup {row}
    /\ UNCHANGED <<r_records, r_ran, r_records03, r_ran03>>

\* test04.py: the rows are fetched in some order and folded into
\* record_of_calls; doing it again fetches them again, in an order of its own.
Reconstruct ==
    /\ r_ran03 = "no"
    /\ \E call_log \in RowOrders(r_rows) : r_records' = ProcessCallLog(call_log)
    /\ r_ran' = TRUE
    /\ UNCHANGED <<r_rows, r_records03, r_ran03>>

\* test03.py: process_call_log(call_log) on the rows in some order.
Reconstruct03 ==
    /\ ~r_ran
    /\ r_ran03 = "no"
    /\ \E call_log \in RowOrders(r_rows) :
          IF process_call_log_raises(call_log)
          THEN r_records03' = {} /\ r_ran03' = "raised"
          ELSE r_records03' = process_call_log(call_log) /\ r_ran03' = "returned"
    /\ UNCHANGED <<r_rows, r_records, r_ran>>

-----------------------------------------------------------------------------
(* The job of src/test04.py: state *)

MaxShards == 2

retries == 3

Shards == 1..MaxShards

\* What the telephony system writes to asterisk.queue_log of a shard, in the
\* order it appends it.  Shard 1: a call that is abandoned and later leaves
\* the empty queue.  The other shards: a call that never entered the queue
\* (callid 2) and a call completed by the caller (callid 1).
ShardLog(s) ==
    IF s = 1
    THEN << EventRow(1, 1, "ENTERQUEUE", 1), EventRow(1, 2, "ABANDON", 1),
            EventRow(1, 3, "EXITEMPTY", 2) >>
    ELSE << EventRow(2, 1, "COMPLETEAGENT", 1), EventRow(1, 1, "ENTERQUEUE", 1),
            EventRow(1, 2, "COMPLETECALLER", 1) >>

\* START_TIME and END_TIME, as the environment of an invocation sets them.
Windows == {<<1, 2>>, <<2, 3>>}

UNCLAIMED == 0

CLAIMED == 1

DONE == 2

-----------------------------------------------------------------------------
(* The job of src/test04.py: the queries *)

\* The rows of asterisk.queue_log of shard s: row i is ShardLog(s)[i] and
\* flags[i] is its flag column.
RowIds(flags) == 1..Len(flags)

\* The UPDATE to flag = 1 without the "q_event" IN (...) of its WHERE clause.
UpdateFlag1_any_event(s, flags, start_time, end_time) ==
    [i \in RowIds(flags) |->
        IF /\ flags[i] = UNCLAIMED
           /\ start_time <= ShardLog(s)[i].time
           /\ ShardLog(s)[i].time <= end_time
        THEN CLAIMED ELSE flags[i]]

\* The UPDATE to flag = 1 without "flag = 0" in its WHERE clause.
UpdateFlag1_any_flag(s, flags, start_time, end_time) ==
    [i \in RowIds(flags) |->
        IF /\ ShardLog(s)[i].event \in TerminalEvents
           /\ start_time <= ShardLog(s)[i].time
           /\ ShardLog(s)[i].time <= end_time
        THEN CLAIMED ELSE flags[i]]

\* UPDATE asterisk.queue_log SET flag = 1 WHERE flag = 0 AND "q_event" IN
\* ('EXITEMPTY', 'COMPLETEAGENT', 'COMPLETECALLER', 'ABANDON')
\* AND "time" BETWEEN %s AND %s
UpdateFlag1(s, flags, start_time, end_time) ==
    [i \in RowIds(flags) |->
        IF /\ flags[i] = UNCLAIMED
           /\ ShardLog(s)[i].event \in TerminalEvents
           /\ start_time <= ShardLog(s)[i].time
           /\ ShardLog(s)[i].time <= end_time
        THEN CLAIMED ELSE flags[i]]

\* The fetch of test03.py, which has no flag:
\* WITH finished_call_ids AS (SELECT callid FROM asterisk.queue_log
\*   WHERE "q_event" IN ('EXITEMPTY', 'COMPLETEAGENT', 'COMPLETECALLER', 'ABANDON')
\*   AND "time" BETWEEN %s AND %s)
\* SELECT * FROM asterisk.queue_log WHERE callid IN (SELECT callid FROM finished_call_ids)
\* As a bag over the first n rows of the log of shard s.
FetchWindow03(s, n, start_time, end_time) ==
    [i \in 1..n |->
        IF \E j \in 1..n :
              /\ ShardLog(s)[j].event \in TerminalEvents
              /\ start_time <= ShardLog(s)[j].time
              /\ ShardLog(s)[j].time <= end_time
              /\ ShardLog(s)[j].callid = ShardLog(s)[i].callid
        THEN 1 ELSE 0]

\* The fetch without any condition: SELECT * FROM asterisk.queue_log
FetchFlag1_all_rows(s, flags) ==
    [i \in RowIds(flags) |-> 1]

\* The fetch without the join on callid: SELECT * FROM asterisk.queue_log
\* WHERE flag = 1
FetchFlag1_no_join(s, flags) ==
    [i \in RowIds(flags) |-> IF flags[i] = CLAIMED THEN 1 ELSE 0]

\* WITH finished_call_ids AS (SELECT callid FROM asterisk.queue_log WHERE flag = 1)
\* SELECT ql.* FROM asterisk.queue_log ql JOIN finished_call_ids fci
\*   ON ql.callid = fci.callid
\* As a bag: how many times the result holds row i (once for every row of
\* finished_call_ids with its callid).
FetchFlag1(s, flags) ==
    [i \in RowIds(flags) |->
        Cardinality({j \in RowIds(flags) :
                        /\ flags[j] = CLAIMED
                        /\ ShardLog(s)[j].callid = ShardLog(s)[i].callid})]

\* The same UPDATE without its WHERE clause: UPDATE ... SET flag = 2
UpdateFlag2_no_where(flags) ==
    [i \in RowIds(flags) |-> DONE]

\* UPDATE asterisk.queue_log SET flag = 2 WHERE flag = 1
UpdateFlag2(flags) ==
    [i \in RowIds(flags) |-> IF flags[i] = CLAIMED THEN DONE ELSE flags[i]]

\* The orders in which fetchall can return the rows of a result.
RECURSIVE BagOrders(_, _)
BagOrders(s, bag) ==
    LET left == {i \in DOMAIN bag : bag[i] > 0}
    IN IF left = {} THEN {<<>>}
       ELSE UNION {{<<ShardLog(s)[i]>> \o o :
                       o \in BagOrders(s, [bag EXCEPT ![i] = @ - 1])} : i \in left}

\* The insert without its conflict clause, into a table without a key:
\* INSERT INTO asterisk.call_logs (...) VALUES (...)
InsertOnConflict_plain(table, row) == table \cup {row}

\* The same insert as an upsert: ON CONFLICT (callid) DO UPDATE SET ...
InsertOnConflict_do_update(table, row) ==
    {t \in table : t.callid # row.callid} \cup {row}

\* INSERT INTO asterisk.call_logs (...) VALUES (...) ON CONFLICT (callid) DO NOTHING
InsertOnConflict(table, row) ==
    IF \E t \in table : t.callid = row.callid THEN table ELSE table \cup {row}

\* for index, row in df.iterrows(): cursor.execute(insert_query, ...), then commit
RECURSIVE push_data_to_db(_, _)
push_data_to_db(df, table) ==
    IF df = <<>> THEN table
    ELSE push_data_to_db(Tail(df), InsertOnConflict(table, Head(df)))

\* 2 ** attempt
RECURSIVE Pow2(_)
Pow2(n) == IF n = 0 THEN 1 ELSE 2 * Pow2(n - 1)

-----------------------------------------------------------------------------
(* The job of src/test04.py: main, connect_and_process and what they call *)

\* The shard whose connect_and_process is running.
Cur == db_urls[m_i]

PipeInit ==
    /\ pbx \in [Shards -> {"ok", "malformed"}]
    /\ queue_log = [s \in Shards |-> <<>>]
    /\ call_logs = [s \in Shards |-> {}]
    /\ m_pc = "idle"
    /\ db_urls = <<>>
    /\ m_i = 1
    /\ window = <<1, 2>>
    /\ started = {}
    /\ completed = {}
    /\ conn_failed = {}
    /\ p_pc = "none"
    /\ p_conn = "none"
    /\ g_attempt = 0
    /\ g_tried = 0
    /\ g_sleeps = <<>>
    /\ g_result = "none"
    /\ call_log_data = <<>>
    /\ record_of_calls = {}
    /\ push_result = "none"
    /\ push_done = {}

PipeIdle ==
    /\ pbx = [s \in Shards |-> "ok"]
    /\ queue_log = [s \in Shards |-> <<>>]
    /\ call_logs = [s \in Shards |-> {}]
    /\ m_pc = "idle"
    /\ db_urls = <<>>
    /\ m_i = 1
    /\ window = <<1, 2>>
    /\ started = {}
    /\ completed = {}
    /\ conn_failed = {}
    /\ p_pc = "none"
    /\ p_conn = "none"
    /\ g_attempt = 0
    /\ g_tried = 0
    /\ g_sleeps = <<>>
    /\ g_result = "none"
    /\ call_log_data = <<>>
    /\ record_of_calls = {}
    /\ push_result = "none"
    /\ push_done = {}

\* The telephony system appends the next event of shard s, with flag 0.
LogEvent ==
    \E s \in Shards :
        /\ Len(queue_log[s]) < Len(ShardLog(s))
        /\ queue_log' = [queue_log EXCEPT ![s] = Append(@, UNCLAIMED)]
        /\ UNCHANGED <<pbx, call_logs, mainVars, runVars>>

\* main, up to the loop: the window of the invocation and
\* get_active_callcenter_db_urls(), which returns the descriptors in some
\* order, or [] when the registry cannot be read.
main ==
    /\ m_pc \in {"idle", "done", "raised", "killed"}
    /\ \E w \in Windows : window' = w
    /\ \/ /\ db_urls' = <<>>
          /\ m_pc' = "done"
       \/ /\ db_urls' \in RowOrders(Shards)
          /\ m_pc' = "loop"
    /\ m_i' = 1
    /\ started' = {}
    /\ completed' = {}
    /\ conn_failed' = {}
    /\ p_pc' = "none"
    /\ UNCHANGED <<pbx, queue_log, call_logs, p_conn, g_attempt, g_tried, g_sleeps,
                   g_result, call_log_data, record_of_calls, push_result, push_done>>

\* for db_url in db_urls: connect_and_process(db_url, ...) is entered and
\* calls get_database_connection(db_url).
main_loop ==
    /\ m_pc = "loop"
    /\ p_pc = "none"
    /\ m_i <= Len(db_urls)
    /\ started' = started \cup {Cur}
    /\ p_pc' = "connect"
    /\ p_conn' = "none"
    /\ g_attempt' = 0
    /\ g_tried' = 0
    /\ g_sleeps' = <<>>
    /\ g_result' = "none"
    /\ call_log_data' = <<>>
    /\ record_of_calls' = {}
    /\ push_result' = "none"
    /\ push_done' = {}
    /\ UNCHANGED <<pbx, queue_log, call_logs, m_pc, db_urls, m_i, window,
                   completed, conn_failed>>

\* The loop of main is exhausted: main returns.
main_return ==
    /\ m_pc = "loop"
    /\ p_pc = "none"
    /\ m_i > Len(db_urls)
    /\ m_pc' = "done"
    /\ UNCHANGED <<pbx, queue_log, call_logs, db_urls, m_i, window, started,
                   completed, conn_failed, runVars>>

\* A caller that logs the failed connection and goes on to step 1.
ReturnNone_goes_on ==
    /\ g_result' = "None"
    /\ conn_failed' = conn_failed \cup {Cur}
    /\ p_pc' = "claim"
    /\ m_pc' = m_pc

\* get_database_connection returned None.  "conn,dbname = None" raises
\* TypeError in connect_and_process, outside every try; main has no handler:
\* the invocation ends there.
ReturnNone ==
    /\ g_result' = "None"
    /\ conn_failed' = conn_failed \cup {Cur}
    /\ p_pc' = "none"
    /\ m_pc' = "raised"

\* get_database_connection: the descriptor does not match the pattern.
get_database_connection_invalid ==
    /\ p_pc = "connect"
    /\ pbx[Cur] = "malformed"
    /\ ReturnNone
    /\ UNCHANGED <<pbx, queue_log, call_logs, db_urls, m_i, window, started, completed,
                   p_conn, g_attempt, g_tried, g_sleeps, call_log_data,
                   record_of_calls, push_result, push_done>>

\* get_database_connection: psycopg2.connect succeeds, (conn, dbname) is
\* returned and connect_and_process opens its cursor.
get_database_connection_ok ==
    /\ p_pc = "connect"
    /\ pbx[Cur] = "ok"
    /\ g_tried' = g_tried + 1
    /\ g_result' = "conn"
    /\ p_conn' = "open"
    /\ p_pc' = "claim"
    /\ UNCHANGED <<pbx, queue_log, call_logs, mainVars, g_attempt, g_sleeps,
                   call_log_data, record_of_calls, push_result, push_done>>

\* get_database_connection: psycopg2.connect raises; the except logs it.
get_database_connection_fail ==
    /\ p_pc = "connect"
    /\ pbx[Cur] = "ok"
    /\ g_tried' = g_tried + 1
    /\ p_pc' = "sleep"
    /\ UNCHANGED <<pbx, queue_log, call_logs, mainVars, p_conn, g_attempt, g_sleeps,
                   g_result, call_log_data, record_of_calls, push_result, push_done>>

\* get_database_connection: time.sleep(2 ** attempt) in the except, then the
\* next turn of "for attempt in range(retries)".
get_database_connection_sleep ==
    /\ p_pc = "sleep"
    /\ g_sleeps' = Append(g_sleeps, Pow2(g_attempt))
    /\ g_attempt' = g_attempt + 1
    /\ p_pc' = IF g_attempt + 1 < retries THEN "connect" ELSE "exhausted"
    /\ UNCHANGED <<pbx, queue_log, call_logs, mainVars, p_conn, g_tried, g_result,
                   call_log_data, record_of_calls, push_result, push_done>>

\* get_database_connection: the loop is exhausted.
get_database_connection_exhausted ==
    /\ p_pc = "exhausted"
    /\ ReturnNone
    /\ UNCHANGED <<pbx, queue_log, call_logs, db_urls, m_i, window, started, completed,
                   p_conn, g_attempt, g_tried, g_sleeps, call_log_data,
                   record_of_calls, push_result, push_done>>

\* connect_and_process, step 1: the UPDATE to flag = 1 and its commit.
claim ==
    /\ p_pc = "claim"
    /\ queue_log' = [queue_log EXCEPT
                        ![Cur] = UpdateFlag1(Cur, @, window[1], window[2])]
    /\ p_pc' = "fetch"
    /\ UNCHANGED <<pbx, call_logs, mainVars, p_conn, connVars, call_log_data,
                   record_of_calls, push_result, push_done>>

\* connect_and_process, step 2: the SELECT and fetchall.
fetch ==
    /\ p_pc = "fetch"
    /\ call_log_data' = FetchFlag1(Cur, queue_log[Cur])
    /\ p_pc' = "process"
    /\ UNCHANGED <<pbx, queue_log, call_logs, mainVars, p_conn, connVars,
                   record_of_calls, push_result, push_done>>

\* connect_and_process: the UPDATE or the SELECT raises.  The except logs
\* it; pd.DataFrame(call_log_data, ...) then raises UnboundLocalError
\* outside every try, cursor and connection stay open and main has no handler.
query_fail ==
    /\ p_pc \in {"claim", "fetch"}
    /\ p_pc' = "none"
    /\ m_pc' = "raised"
    /\ UNCHANGED <<pbx, queue_log, call_logs, db_urls, m_i, window, started, completed,
                   conn_failed, p_conn, connVars, call_log_data, record_of_calls,
                   push_result, push_done>>

\* The local variables of connect_and_process and of what it called are gone.
DropLocals ==
    /\ g_attempt' = 0
    /\ g_tried' = 0
    /\ g_sleeps' = <<>>
    /\ g_result' = "none"
    /\ call_log_data' = <<>>
    /\ record_of_calls' = {}
    /\ push_result' = "none"
    /\ push_done' = {}

\* connect_and_process returns to the loop of main, which logs "Processing
\* completed" and goes on; the finally has closed cursor and connection.
ReturnToMain ==
    /\ p_conn' = "closed"
    /\ p_pc' = "none"
    /\ m_i' = m_i + 1
    /\ completed' = completed \cup {Cur}
    /\ DropLocals

\* connect_and_process: record_of_calls is computed from the fetched rows.
process ==
    /\ p_pc = "process"
    /\ record_of_calls' \in {ProcessCallLog(call_log) :
                                call_log \in BagOrders(Cur, call_log_data)}
    /\ p_pc' = "push"
    /\ UNCHANGED <<pbx, queue_log, call_logs, mainVars, p_conn, connVars,
                   call_log_data, push_result, push_done>>

\* connect_and_process: the pandas expression raises; "except Exception"
\* prints it, push_data_to_db and the UPDATE to flag = 2 are skipped.
process_fail ==
    /\ p_pc = "process"
    /\ ReturnToMain
    /\ UNCHANGED <<pbx, queue_log, call_logs, m_pc, db_urls, window, started,
                   conn_failed>>

\* push_data_to_db: every row of the frame is inserted and the transaction
\* commits.
push_ok ==
    /\ p_pc = "push"
    /\ \E df \in RowOrders(record_of_calls) :
          call_logs' = [call_logs EXCEPT ![Cur] = push_data_to_db(df, @)]
    /\ push_result' = "ok"
    /\ push_done' = record_of_calls
    /\ p_pc' = "advance"
    /\ UNCHANGED <<pbx, queue_log, mainVars, p_conn, connVars, call_log_data,
                   record_of_calls>>

\* push_data_to_db on a connection in autocommit mode: a statement raises when
\* the INSERTs of some rows have run, and those rows stay.
push_fail_autocommit ==
    /\ p_pc = "push"
    /\ push_result' = "failed"
    /\ push_done' \in SUBSET record_of_calls
    /\ \E df \in RowOrders(push_done') :
          call_logs' = [call_logs EXCEPT ![Cur] = push_data_to_db(df, @)]
    /\ p_pc' = "advance"
    /\ UNCHANGED <<pbx, queue_log, mainVars, p_conn, connVars,
                   call_log_data, record_of_calls>>

\* push_data_to_db: a statement raises (CREATE TABLE, one of the INSERTs or
\* the commit) when the INSERTs of some rows have run; the except logs it and
\* rolls the whole transaction back; push_data_to_db returns normally.
push_fail ==
    /\ p_pc = "push"
    /\ push_result' = "failed"
    /\ push_done' \in SUBSET record_of_calls
    /\ p_pc' = "advance"
    /\ UNCHANGED <<pbx, queue_log, call_logs, mainVars, p_conn, connVars,
                   call_log_data, record_of_calls>>

\* connect_and_process, step 3: the UPDATE to flag = 2 and its commit, then
\* the finally.
advance ==
    /\ p_pc = "advance"
    /\ queue_log' = [queue_log EXCEPT ![Cur] = UpdateFlag2(@)]
    /\ ReturnToMain
    /\ UNCHANGED <<pbx, call_logs, m_pc, db_urls, window, started, conn_failed>>

\* connect_and_process, step 3 raises: the except prints it, then the finally.
advance_fail ==
    /\ p_pc = "advance"
    /\ ReturnToMain
    /\ UNCHANGED <<pbx, queue_log, call_logs, m_pc, db_urls, window, started,
                   conn_failed>>

\* The process is stopped from outside (a crash) while main runs: what it
\* held in memory is gone, what it committed stays.
kill ==
    /\ m_pc = "loop"
    /\ m_pc' = "killed"
    /\ p_pc' = "none"
    /\ p_conn' = "none"
    /\ db_urls' = <<>>
    /\ m_i' = 1
    /\ DropLocals
    /\ UNCHANGED <<pbx, queue_log, call_logs, window, started, completed, conn_failed>>

-----------------------------------------------------------------------------
(* The concurrent job of src/test03.py: main and its ThreadPoolExecutor *)

VARIABLES
    e_pc,         \* main of test03.py: "idle", "submit", "wait" (as_completed), "done"
    e_urls,       \* main of test03.py: how many descriptors the registry returned
    futures,      \* per descriptor: "unsubmitted", "queued", "connect", "work",
                  \* "returned" or "raised"
    e_failed,     \* descriptors whose pipeline failed (connection, cursor, query, insert)
    e_processed,  \* descriptors logged "Processed: ..."
    e_errors,     \* descriptors logged "Error: ..."
    e_attempt,    \* per descriptor: the attempts of get_database_connection that failed
    e_yields      \* per descriptor: how often as_completed has yielded its future

concVars == <<e_pc, e_urls, futures, e_failed, e_processed, e_errors, e_attempt, e_yields>>

\* The most descriptors the registry returns.
MaxUrls == 6

\* ThreadPoolExecutor(max_workers=5)
max_workers == 5

Urls == 1..MaxUrls

\* The pipelines a worker thread is executing.
Executing == {i \in Urls : futures[i] \in {"connect", "work"}}

\* An executor that starts a thread for every work item.
WorkerFree_unbounded(executing) == TRUE

\* The executor hands a queued work item to a thread only while fewer than
\* max_workers threads are busy.
WorkerFree(executing) == Cardinality(executing) < max_workers

\* The most descriptors the registry returns when the retries of each
\* connection are followed attempt by attempt.
MaxFewUrls == 3

\* A connector that tries again for ever: "while True".
AttemptsLeft_forever(attempt) == TRUE

\* for attempt in range(retries): another turn of the loop is left.
AttemptsLeft(attempt) == attempt < retries

ConcIdle ==
    /\ e_pc = "idle"
    /\ e_urls = 0
    /\ futures = [i \in Urls |-> "unsubmitted"]
    /\ e_failed = {}
    /\ e_processed = {}
    /\ e_errors = {}
    /\ e_attempt = [i \in Urls |-> 0]
    /\ e_yields = [i \in Urls |-> 0]

\* The pipelines whose future is done.
Finished == {i \in Urls : futures[i] \in {"returned", "raised"}}

\* The futures the collecting loop has been handed.
Yielded == {i \in Urls : e_yields[i] > 0}

\* An iterator that keeps yielding a done future.
as_completed_again(done, yielded) == done

\* as_completed(future_to_db_url): the futures it can yield next are the done
\* ones it has not yielded; a yielded future is removed from its pending set.
as_completed(done, yielded) == done \ yielded

\* main: get_active_callcenter_db_urls() returns some descriptors, or none.
main03 ==
    /\ e_pc = "idle"
    /\ \E n \in 0..MaxUrls :
          /\ e_urls' = n
          /\ e_pc' = IF n = 0 THEN "done" ELSE "submit"
    /\ UNCHANGED <<futures, e_failed, e_processed, e_errors, e_attempt, e_yields>>

\* executor.submit(connect_and_process, db_url, ...) for the next db_url of
\* the dict comprehension.
submit03 ==
    /\ e_pc = "submit"
    /\ \E i \in 1..e_urls :
          /\ futures[i] = "unsubmitted"
          /\ \A j \in 1..(i - 1) : futures[j] # "unsubmitted"
          /\ futures' = [futures EXCEPT ![i] = "queued"]
          /\ e_pc' = IF i = e_urls THEN "wait" ELSE "submit"
    /\ UNCHANGED <<e_urls, e_failed, e_processed, e_errors, e_attempt, e_yields>>

\* A thread of the pool takes the oldest queued work item and enters
\* connect_and_process.
worker_start ==
    /\ WorkerFree(Executing)
    /\ \E i \in 1..e_urls :
          /\ futures[i] = "queued"
          /\ \A j \in 1..(i - 1) : futures[j] # "queued"
          /\ futures' = [futures EXCEPT ![i] = "connect"]
    /\ UNCHANGED <<e_pc, e_urls, e_failed, e_processed, e_errors, e_attempt, e_yields>>

\* main, with a registry of at most MaxFewUrls descriptors.
main03_few ==
    /\ e_pc = "idle"
    /\ \E n \in 0..MaxFewUrls :
          /\ e_urls' = n
          /\ e_pc' = IF n = 0 THEN "done" ELSE "submit"
    /\ UNCHANGED <<futures, e_failed, e_processed, e_errors, e_attempt, e_yields>>

\* get_database_connection: psycopg2.connect raises; the except logs it and
\* sleeps 2 ** attempt; the next turn of the loop.
get_database_connection03_fail ==
    /\ \E i \in 1..e_urls :
          /\ futures[i] = "connect"
          /\ AttemptsLeft(e_attempt[i])
          /\ e_attempt' = [e_attempt EXCEPT ![i] = @ + 1]
    /\ UNCHANGED <<e_pc, e_urls, futures, e_failed, e_processed, e_errors, e_yields>>

\* get_database_connection: the loop is exhausted, (None, None) is returned;
\* connect_and_process logs it and returns.
get_database_connection03_exhausted ==
    /\ \E i \in 1..e_urls :
          /\ futures[i] = "connect"
          /\ ~AttemptsLeft(e_attempt[i])
          /\ futures' = [futures EXCEPT ![i] = "returned"]
          /\ e_failed' = e_failed \cup {i}
    /\ UNCHANGED <<e_pc, e_urls, e_processed, e_errors, e_attempt, e_yields>>

\* The whole call of get_database_connection in one step, when it returns
\* (None, None): connect_and_process logs it and returns.
conn_fail03 ==
    /\ \E i \in 1..e_urls :
          /\ futures[i] = "connect"
          /\ futures' = [futures EXCEPT ![i] = "returned"]
          /\ e_failed' = e_failed \cup {i}
    /\ UNCHANGED <<e_pc, e_urls, e_processed, e_errors, e_attempt, e_yields>>

\* conn.cursor() raises, outside the try of connect_and_process.
cursor_raise03 ==
    /\ \E i \in 1..e_urls :
          /\ futures[i] = "connect"
          /\ AttemptsLeft(e_attempt[i])
          /\ futures' = [futures EXCEPT ![i] = "raised"]
          /\ e_failed' = e_failed \cup {i}
    /\ UNCHANGED <<e_pc, e_urls, e_processed, e_errors, e_attempt, e_yields>>

\* The connection and its cursor are open: the try of connect_and_process.
connect_ok03 ==
    /\ \E i \in 1..e_urls :
          /\ futures[i] = "connect"
          /\ AttemptsLeft(e_attempt[i])
          /\ futures' = [futures EXCEPT ![i] = "work"]
    /\ UNCHANGED <<e_pc, e_urls, e_failed, e_processed, e_errors, e_attempt, e_yields>>

\* Query, process_call_log and insert succeed; the finally closes.
work_ok03 ==
    /\ \E i \in 1..e_urls :
          /\ futures[i] = "work"
          /\ futures' = [futures EXCEPT ![i] = "returned"]
    /\ UNCHANGED <<e_pc, e_urls, e_failed, e_processed, e_errors, e_attempt, e_yields>>

\* The query, process_call_log or the insert raises: "except Exception" logs
\* it, the finally closes, connect_and_process returns.
work_fail03 ==
    /\ \E i \in 1..e_urls :
          /\ futures[i] = "work"
          /\ futures' = [futures EXCEPT ![i] = "returned"]
          /\ e_failed' = e_failed \cup {i}
    /\ UNCHANGED <<e_pc, e_urls, e_processed, e_errors, e_attempt, e_yields>>

\* for future in as_completed(...): future.result() returns;
\* logging.info(f"Processed: ...").
report_processed03 ==
    /\ e_pc = "wait"
    /\ \E i \in 1..e_urls :
          /\ i \in as_completed(Finished, Yielded)
          /\ futures[i] = "returned"
          /\ e_processed' = e_processed \cup {i}
          /\ e_yields' = [e_yields EXCEPT ![i] = @ + 1]
    /\ UNCHANGED <<e_pc, e_urls, futures, e_failed, e_errors, e_attempt>>

\* for future in as_completed(...): future.result() raises;
\* logging.error(f"Error: {e}").
report_error03 ==
    /\ e_pc = "wait"
    /\ \E i \in 1..e_urls :
          /\ i \in as_completed(Finished, Yielded)
          /\ futures[i] = "raised"
          /\ e_errors' = e_errors \cup {i}
          /\ e_yields' = [e_yields EXCEPT ![i] = @ + 1]
    /\ UNCHANGED <<e_pc, e_urls, futures, e_failed, e_processed, e_attempt>>

\* as_completed is exhausted and the with block is left: main returns.
main03_return ==
    /\ e_pc = "wait"
    /\ Yielded = 1..e_urls
    /\ e_pc' = "done"
    /\ UNCHANGED <<e_urls, futures, e_failed, e_processed, e_errors, e_attempt, e_yields>>

-----------------------------------------------------------------------------
(* Two instances of the job of src/test04.py against one shard *)

VARIABLES
    o_shard,      \* the shard both instances are given
    o_pc,         \* per instance: "idle", "claim", "fetch", "process", "push",
                  \* "advance" or "done"
    o_window,     \* per instance: <<start_time, end_time>>
    o_claimed,    \* per instance: the rows its UPDATE to flag = 1 changed
    o_data,       \* per instance: call_log_data, as a bag over row ids
    o_records     \* per instance: record_of_calls

instVars == <<o_shard, o_pc, o_window, o_claimed, o_data, o_records>>

instVars_but_pc == <<o_shard, o_window, o_claimed, o_data, o_records>>

Instances == {1, 2}

InstIdle ==
    /\ o_shard = 1
    /\ o_pc = [k \in Instances |-> "idle"]
    /\ o_window = [k \in Instances |-> <<1, 2>>]
    /\ o_claimed = [k \in Instances |-> {}]
    /\ o_data = [k \in Instances |-> <<>>]
    /\ o_records = [k \in Instances |-> {}]

InstInit ==
    /\ o_shard \in Shards
    /\ o_pc = [k \in Instances |-> "idle"]
    /\ o_window = [k \in Instances |-> <<1, 2>>]
    /\ o_claimed = [k \in Instances |-> {}]
    /\ o_data = [k \in Instances |-> <<>>]
    /\ o_records = [k \in Instances |-> {}]

\* main of instance k reaches connect_and_process for the shard, with the
\* window of its environment; get_database_connection returns a connection.
connect2(k) ==
    /\ o_pc[k] = "idle"
    /\ \E w \in Windows : o_window' = [o_window EXCEPT ![k] = w]
    /\ o_pc' = [o_pc EXCEPT ![k] = "claim"]
    /\ UNCHANGED <<pbx, queue_log, call_logs, mainVars, runVars,
                   o_shard, o_claimed, o_data, o_records>>

\* Step 1 of instance k: the UPDATE to flag = 1 and its commit.
claim2(k) ==
    /\ o_pc[k] = "claim"
    /\ queue_log' = [queue_log EXCEPT
                        ![o_shard] = UpdateFlag1(o_shard, @, o_window[k][1], o_window[k][2])]
    /\ o_claimed' = [o_claimed EXCEPT
                        ![k] = {i \in RowIds(queue_log[o_shard]) :
                                   queue_log'[o_shard][i] # queue_log[o_shard][i]}]
    /\ o_pc' = [o_pc EXCEPT ![k] = "fetch"]
    /\ UNCHANGED <<pbx, call_logs, mainVars, runVars, o_shard, o_window, o_data, o_records>>

\* Step 2 of instance k: the SELECT and fetchall.
fetch2(k) ==
    /\ o_pc[k] = "fetch"
    /\ o_data' = [o_data EXCEPT ![k] = FetchFlag1(o_shard, queue_log[o_shard])]
    /\ o_pc' = [o_pc EXCEPT ![k] = "process"]
    /\ UNCHANGED <<pbx, queue_log, call_logs, mainVars, runVars,
                   o_shard, o_window, o_claimed, o_records>>

\* Instance k computes record_of_calls from the rows it fetched.
process2(k) ==
    /\ o_pc[k] = "process"
    /\ \E call_log \in BagOrders(o_shard, o_data[k]) :
          o_records' = [o_records EXCEPT ![k] = ProcessCallLog(call_log)]
    /\ o_pc' = [o_pc EXCEPT ![k] = "push"]
    /\ UNCHANGED <<pbx, queue_log, call_logs, mainVars, runVars,
                   o_shard, o_window, o_claimed, o_data>>

\* push_data_to_db of instance k inserts its frame and commits.
push2(k) ==
    /\ o_pc[k] = "push"
    /\ \E df \in RowOrders(o_records[k]) :
          call_logs' = [call_logs EXCEPT ![o_shard] = push_data_to_db(df, @)]
    /\ o_pc' = [o_pc EXCEPT ![k] = "advance"]
    /\ UNCHANGED <<pbx, queue_log, mainVars, runVars, instVars_but_pc>>

\* Step 3 of instance k: the UPDATE to flag = 2 and its commit, then the finally.
advance2(k) ==
    /\ o_pc[k] = "advance"
    /\ queue_log' = [queue_log EXCEPT ![o_shard] = UpdateFlag2(@)]
    /\ o_pc' = [o_pc EXCEPT ![k] = "done"]
    /\ UNCHANGED <<pbx, call_logs, mainVars, runVars, instVars_but_pc>>

-----------------------------------------------------------------------------
(* Specifications *)

vars == <<holdVars, reconVars, pipeVars, concVars, instVars>>

HoldNext ==
    \/ AppendHoldRow /\ UNCHANGED <<reconVars, pipeVars, concVars, instVars>>
    \/ CallFindHoldTime /\ UNCHANGED <<reconVars, pipeVars, concVars, instVars>>

InitHold == HoldInit /\ ReconIdle /\ PipeIdle /\ ConcIdle /\ InstIdle

SpecHold == InitHold /\ [][HoldNext]_vars

ReconNext ==
    \/ AppendRow /\ UNCHANGED <<holdVars, pipeVars, concVars, instVars>>
    \/ Reconstruct /\ UNCHANGED <<holdVars, pipeVars, concVars, instVars>>
    \/ Reconstruct03 /\ UNCHANGED <<holdVars, pipeVars, concVars, instVars>>

InitRecon == ReconInit /\ HoldIdle /\ PipeIdle /\ ConcIdle /\ InstIdle

SpecRecon == InitRecon /\ [][ReconNext]_vars

otherVars == <<holdVars, reconVars, concVars, instVars>>

Next ==
    \/ LogEvent /\ UNCHANGED otherVars
    \/ main /\ UNCHANGED otherVars
    \/ main_loop /\ UNCHANGED otherVars
    \/ main_return /\ UNCHANGED otherVars
    \/ get_database_connection_invalid /\ UNCHANGED otherVars
    \/ get_database_connection_ok /\ UNCHANGED otherVars
    \/ get_database_connection_fail /\ UNCHANGED otherVars
    \/ get_database_connection_sleep /\ UNCHANGED otherVars
    \/ get_database_connection_exhausted /\ UNCHANGED otherVars
    \/ claim /\ UNCHANGED otherVars
    \/ fetch /\ UNCHANGED otherVars
    \/ query_fail /\ UNCHANGED otherVars
    \/ process /\ UNCHANGED otherVars
    \/ process_fail /\ UNCHANGED otherVars
    \/ push_ok /\ UNCHANGED otherVars
    \/ push_fail /\ UNCHANGED otherVars
    \/ advance /\ UNCHANGED otherVars
    \/ advance_fail /\ UNCHANGED otherVars
    \/ kill /\ UNCHANGED otherVars

Init == PipeInit /\ HoldIdle /\ ReconIdle /\ ConcIdle /\ InstIdle

Spec == Init /\ [][Next]_vars

seqVars == <<holdVars, reconVars, pipeVars, instVars>>

Next03 ==
    \/ main03 /\ UNCHANGED seqVars
    \/ submit03 /\ UNCHANGED seqVars
    \/ worker_start /\ UNCHANGED seqVars
    \/ conn_fail03 /\ UNCHANGED seqVars
    \/ cursor_raise03 /\ UNCHANGED seqVars
    \/ connect_ok03 /\ UNCHANGED seqVars
    \/ work_ok03 /\ UNCHANGED seqVars
    \/ work_fail03 /\ UNCHANGED seqVars
    \/ report_processed03 /\ UNCHANGED seqVars
    \/ report_error03 /\ UNCHANGED seqVars
    \/ main03_return /\ UNCHANGED seqVars

Init03 == ConcIdle /\ HoldIdle /\ ReconIdle /\ PipeIdle /\ InstIdle

\* The threads of the pool and the main thread are scheduled by the operating
\* system and every step of a pipeline ends: a step that can be taken is taken.
Spec03 == Init03 /\ [][Next03]_vars /\ WF_vars(Next03)

\* The same job with few descriptors and the connector followed attempt by
\* attempt.
Next03Retry ==
    \/ main03_few /\ UNCHANGED seqVars
    \/ submit03 /\ UNCHANGED seqVars
    \/ worker_start /\ UNCHANGED seqVars
    \/ get_database_connection03_fail /\ UNCHANGED seqVars
    \/ get_database_connection03_exhausted /\ UNCHANGED seqVars
    \/ cursor_raise03 /\ UNCHANGED seqVars
    \/ connect_ok03 /\ UNCHANGED seqVars
    \/ work_ok03 /\ UNCHANGED seqVars
    \/ work_fail03 /\ UNCHANGED seqVars
    \/ report_processed03 /\ UNCHANGED seqVars
    \/ report_error03 /\ UNCHANGED seqVars
    \/ main03_return /\ UNCHANGED seqVars

Init03Retry == ConcIdle /\ HoldIdle /\ ReconIdle /\ PipeIdle /\ InstIdle

\* Every connection attempt and every query returns or fails, and the threads
\* are scheduled: a step that can be taken is taken.
Spec03Retry == Init03Retry /\ [][Next03Retry]_vars /\ WF_vars(Next03Retry)

restVars == <<holdVars, reconVars, concVars>>

\* Two instances of the job, started independently, against one shard whose
\* log the telephony system keeps appending to.
Next2 ==
    \/ LogEvent /\ UNCHANGED <<restVars, instVars>>
    \/ \E k \in Instances : connect2(k) /\ UNCHANGED restVars
    \/ \E k \in Instances : claim2(k) /\ UNCHANGED restVars
    \/ \E k \in Instances : fetch2(k) /\ UNCHANGED restVars
    \/ \E k \in Instances : process2(k) /\ UNCHANGED restVars
    \/ \E k \in Instances : push2(k) /\ UNCHANGED restVars
    \/ \E k \in Instances : advance2(k) /\ UNCHANGED restVars

Init2 == InstInit /\ PipeIdle /\ HoldIdle /\ ReconIdle /\ ConcIdle

Spec2 == Init2 /\ [][Next2]_vars

-----------------------------------------------------------------------------
(* Properties of the batch job (Spec) *)

\* C1: a shard whose connection cannot be established does not keep the
\* other shards from being processed: when the invocation has ended and every
\* connection attempt to shard a failed, the pipeline of every other shard of
\* the registry was started in that invocation.
C1_ShardIsolation ==
    \A a \in Shards : \A b \in Shards \ {a} :
        (/\ m_pc \in {"done", "raised"}
         /\ a \in conn_failed
         /\ pbx[a] = "ok"
         /\ \E k \in 1..Len(db_urls) : db_urls[k] = b)
        => b \in started

\* C2: a run moves the rows of a call from CLAIMED to DONE only when the
\* SessionRecords it built were persisted: when push_data_to_db failed, the
\* rows of the calls in record_of_calls do not become DONE in that run.
C2_DoneOnlyAfterPersist ==
    [][\A s \in Shards : \A i \in RowIds(queue_log[s]) :
          (/\ queue_log[s][i] = CLAIMED
           /\ queue_log'[s][i] = DONE
           /\ \E rec \in record_of_calls : rec.callid = ShardLog(s)[i].callid)
          => push_result = "ok"]_vars

\* C3: asterisk.call_logs holds at most one row per callid, and a row that
\* exists is never changed or removed by a later write for that callid.
C3_WriteOnce ==
    [][\A s \in Shards :
          /\ \A x \in call_logs'[s] : \A y \in call_logs'[s] :
                x.callid = y.callid => x = y
          /\ call_logs[s] \subseteq call_logs'[s]]_vars

\* A later write for a callid that is already stored, with other contents,
\* has been committed.
C3_Witness ==
    /\ p_pc = "advance"
    /\ push_result = "ok"
    /\ \E rec \in record_of_calls : \E t \in call_logs[Cur] :
          rec.callid = t.callid /\ rec # t

\* C10: get_database_connection makes at most retries attempts, returns the
\* connection of the first attempt that succeeds, fails only after exactly
\* retries failed attempts, sleeps only between two consecutive attempts (not
\* after the last failed one), and every sleep is twice the one before.
C10_RetryContract ==
    /\ g_tried <= retries
    /\ g_result = "conn" => Len(g_sleeps) = g_tried - 1
    /\ (g_result = "None" /\ g_tried > 0) =>
          (g_tried = retries /\ Len(g_sleeps) = g_tried - 1)
    /\ \A k \in 1..(Len(g_sleeps) - 1) : g_sleeps[k + 1] = 2 * g_sleeps[k]

-----------------------------------------------------------------------------
(* Properties of find_hold_time (SpecHold) *)

\* The row that ends the first completed interval of a HOLD at position j:
\* the first UNHOLD after it, 0 when there is none.
NextUnhold(group, j) ==
    LET later == {i \in (j + 1)..Len(group) : group[i].event = "UNHOLD"}
    IN IF later = {} THEN 0 ELSE CHOOSE i \in later : \A k \in later : i <= k

\* The sum of (UNHOLD time - HOLD time) over the HOLD rows that have a later
\* UNHOLD, the last row counting as UNHOLD when the row before it is a HOLD.
PairedHoldSum(group) ==
    LET g == IF group[Len(group) - 1].event = "HOLD" THEN SetLastUnhold(group) ELSE group
        holds == {j \in 1..Len(g) : g[j].event = "HOLD" /\ NextUnhold(g, j) # 0}
        RECURSIVE Sum(_)
        Sum(S) == IF S = {} THEN 0
                  ELSE LET j == CHOOSE x \in S : TRUE
                       IN (g[NextUnhold(g, j)].time - g[j].time) + Sum(S \ {j})
    IN Sum(holds)

\* C5: for a sequence of more than 2 events, find_hold_time returns the sum
\* of (UNHOLD time - HOLD time) over the matched HOLD/UNHOLD pairs (stated
\* for the logs in which UNHOLD is an event type the frame knows).
C5_MatchedPairSum ==
    (h_result # NaT /\ Len(h_group) > 2 /\ "UNHOLD" \in h_cats)
    => h_result = PairedHoldSum(h_group)

\* C7: for a sequence of at most 2 events find_hold_time returns 0, whatever
\* the events are.
C7_ShortGroupIsZero ==
    (h_result # NaT /\ Len(h_group) <= 2) => h_result = 0

\* find_hold_time has returned for a HOLD followed by a later UNHOLD.
C7_Witness ==
    /\ h_result # NaT
    /\ Len(h_group) = 2
    /\ h_group[1].event = "HOLD"
    /\ h_group[2].event = "UNHOLD"
    /\ h_group[2].time > h_group[1].time

-----------------------------------------------------------------------------
(* Properties of the reconstructors (SpecRecon) *)

CallRows(id) == {row \in r_rows : row.callid = id}

\* C4: no SessionRecord is emitted for a callid without an ENTERQUEUE row.
C4_NoEnterQueueNoRecord ==
    /\ \A rec \in r_records :
          \E row \in CallRows(rec.callid) : row.event = "ENTERQUEUE"
    /\ \A rec \in r_records03 :
          \E row \in CallRows(rec.callid) : row.event = "ENTERQUEUE"

\* The log of call id is ENTERQUEUE, CONNECT, one HOLD at h and one
\* COMPLETE* at c, in that order of time, and nothing else.
EndsOnHold(id, h, c) ==
    /\ Cardinality(CallRows(id)) = 4
    /\ {h, c} \subseteq CallRows(id)
    /\ h.event = "HOLD"
    /\ c.event \in CompleteEvents
    /\ \E e \in CallRows(id) : \E n \in CallRows(id) :
          /\ e.event = "ENTERQUEUE"
          /\ n.event = "CONNECT"
          /\ e.time <= n.time
          /\ n.time <= h.time
          /\ h.time <= c.time

\* C6, as the design document states it: a call that ends on hold gets
\* hold_duration = c - h.
C6_EndsOnHoldIsRemainder ==
    r_ran => \A id \in Calls : \A h \in CallRows(id) : \A c \in CallRows(id) :
                EndsOnHold(id, h, c) =>
                   \A rec \in r_records :
                       rec.callid = id => rec.hold_duration = c.time - h.time

\* C6, as the code has it: the hold sequence of a call that ends on hold is
\* (HOLD, COMPLETE*), which has 2 events, and its hold_duration is 0.
C6_EndsOnHoldIsZero ==
    r_ran => \A id \in Calls : \A h \in CallRows(id) : \A c \in CallRows(id) :
                EndsOnHold(id, h, c) =>
                   /\ \A call_log \in RowOrders(r_rows) :
                         /\ Len(HoldGroup(call_log, id)) = 2
                         /\ HoldGroup(call_log, id)[1] = h
                         /\ HoldGroup(call_log, id)[2] = c
                   /\ \E rec \in r_records : rec.callid = id
                   /\ \A rec \in r_records :
                         rec.callid = id => rec.hold_duration = 0

\* A call that ends on hold, with time spent on hold, has been reconstructed.
C6_Witness ==
    /\ r_ran
    /\ \E id \in Calls : \E h \in CallRows(id) : \E c \in CallRows(id) :
          /\ EndsOnHold(id, h, c)
          /\ h.time < c.time
          /\ \E rec \in r_records : rec.callid = id

\* C8: for a call with a CONNECT row and an ABANDON or EXITEMPTY row, the
\* waited_duration of a SessionRecord is the payload 1 of the CONNECT row it
\* was built from, not the payload 3 of the abandonment.
C8_ConnectWaitWins ==
    \A rec \in r_records :
        (/\ \E row \in CallRows(rec.callid) : row.event = "CONNECT"
         /\ \E row \in CallRows(rec.callid) : row.event \in AbandonEvents)
        => \E row \in CallRows(rec.callid) :
              /\ row.event = "CONNECT"
              /\ row.time = rec.CONNECT
              /\ row.data1 = rec.waited_duration

\* A record of a call whose CONNECT and abandonment carry different waits.
C8_Witness ==
    /\ r_ran
    /\ \E rec \in r_records :
          /\ \A row \in CallRows(rec.callid) :
                row.event = "CONNECT" => row.data1 = rec.waited_duration
          /\ \E row \in CallRows(rec.callid) :
                row.event \in AbandonEvents /\ row.data3 # rec.waited_duration
          /\ \E row \in CallRows(rec.callid) : row.event = "CONNECT"

\* C9: reconstructing the same set of rows again, fetched in whatever order,
\* gives the same SessionRecords.
C9_OrderIndependent ==
    [][(r_ran /\ r_ran') => r_records' = r_records]_vars

-----------------------------------------------------------------------------
(* Further properties of the batch job (Spec) *)

\* C11: a descriptor that does not match the pattern makes the connector
\* fail at once, with no connection attempt and no sleep; the shard is
\* skipped and the other shards of the registry are still processed in that
\* invocation.
C11_MalformedIsSkipped ==
    /\ (m_pc = "raised" /\ Cur \in conn_failed /\ pbx[Cur] = "malformed")
          => (g_tried = 0 /\ g_sleeps = <<>>)
    /\ \A a \in Shards : \A b \in Shards \ {a} :
          (/\ m_pc \in {"done", "raised"}
           /\ a \in conn_failed
           /\ pbx[a] = "malformed"
           /\ \E k \in 1..Len(db_urls) : db_urls[k] = b)
          => b \in started

\* C12: when the claim or the fetch query of a shard fails, the run of that
\* shard ends there without raising, nothing is persisted, and main goes on
\* to the next shard.
C12_QueryFailureIsLocal ==
    [][(/\ p_pc \in {"claim", "fetch"}
        /\ p_pc' = "none"
        /\ m_pc' # "killed")
       => (/\ m_pc' = "loop"
           /\ m_i' = m_i + 1
           /\ call_logs' = call_logs)]_vars

\* C15: the claim step selects a row if and only if it is a terminal event
\* with start <= time < end: a terminal event at time end is not selected,
\* one at time start is.
C15_HalfOpenWindow ==
    [][(p_pc = "claim" /\ p_pc' = "fetch") =>
          \A i \in RowIds(queue_log[Cur]) :
              (queue_log[Cur][i] = UNCLAIMED) =>
                 ((queue_log'[Cur][i] = CLAIMED)
                  <=> (/\ ShardLog(Cur)[i].event \in TerminalEvents
                       /\ window[1] <= ShardLog(Cur)[i].time
                       /\ ShardLog(Cur)[i].time < window[2]))]_vars

\* C16: the flag of a row only moves forward, one step at a time:
\* UNCLAIMED -> CLAIMED -> DONE.
C16_WatermarkForward ==
    [][\A s \in Shards : \A i \in RowIds(queue_log[s]) :
          \/ queue_log'[s][i] = queue_log[s][i]
          \/ queue_log[s][i] = UNCLAIMED /\ queue_log'[s][i] = CLAIMED
          \/ queue_log[s][i] = CLAIMED /\ queue_log'[s][i] = DONE]_vars

\* A run is about to advance the watermark of a shard that holds a DONE row,
\* a CLAIMED row and an UNCLAIMED row.
C16_Witness ==
    /\ p_pc = "advance"
    /\ \E i \in RowIds(queue_log[Cur]) : queue_log[Cur][i] = DONE
    /\ \E i \in RowIds(queue_log[Cur]) : queue_log[Cur][i] = CLAIMED
    /\ \E i \in RowIds(queue_log[Cur]) : queue_log[Cur][i] = UNCLAIMED

\* connect_and_process is between its claim step and its return.
Running == m_pc = "loop" /\ p_pc \in {"claim", "fetch", "process", "push", "advance"}

\* Every terminal row of shard s that the window of the invocation selects
\* is DONE.
WindowDone(s) ==
    \A i \in RowIds(queue_log[s]) :
        (/\ ShardLog(s)[i].event \in TerminalEvents
         /\ window[1] <= ShardLog(s)[i].time
         /\ ShardLog(s)[i].time <= window[2])
        => queue_log[s][i] = DONE

NoRowClaimed(s) == \A i \in RowIds(queue_log[s]) : queue_log[s][i] # CLAIMED

\* The step claims and advances no row, leaves the destination as it is and
\* leaves nothing extracted or reconstructed.
StepIsNoOp ==
    /\ \A i \in RowIds(queue_log[Cur]) : queue_log'[Cur][i] = queue_log[Cur][i]
    /\ call_logs' = call_logs
    /\ \A i \in DOMAIN call_log_data' : call_log_data'[i] = 0
    /\ record_of_calls' = {}

-----------------------------------------------------------------------------
(* Further properties of the reconstructors (SpecRecon) *)

\* C18: the reconstructor emits exactly one SessionRecord for every callid
\* that has an ENTERQUEUE row, never two with the same callid (stated for the
\* calls that entered the queue once).
C18_OneRecordPerCall ==
    r_ran => \A id \in Calls :
                (Cardinality({row \in CallRows(id) : row.event = "ENTERQUEUE"}) = 1)
                => Cardinality({rec \in r_records : rec.callid = id}) = 1

-----------------------------------------------------------------------------
(* Recovery and persistence of the batch job (Spec) *)

\* C19: a run that is stopped after its claim step leaves its rows CLAIMED;
\* a later run on the shard that completes (push committed, watermark
\* advanced) moves every CLAIMED row to DONE, whatever its window, and the
\* destination then holds a row for each of their calls that entered the queue.
C19_ClaimedRowsAreFinished ==
    [][/\ (m_pc = "loop" /\ m_pc' = "killed") => (queue_log' = queue_log)
       /\ (/\ p_pc = "advance"
           /\ push_result = "ok"
           /\ p_pc' = "none"
           /\ m_pc' = "loop"
           /\ queue_log' # queue_log)
          => \A i \in RowIds(queue_log[Cur]) :
                (queue_log[Cur][i] = CLAIMED) =>
                   /\ queue_log'[Cur][i] = DONE
                   /\ (\E j \in RowIds(queue_log[Cur]) :
                          /\ ShardLog(Cur)[j].callid = ShardLog(Cur)[i].callid
                          /\ ShardLog(Cur)[j].event = "ENTERQUEUE")
                      => \E t \in call_logs'[Cur] :
                            t.callid = ShardLog(Cur)[i].callid]_vars

\* A run has committed its push and is about to advance a row that lies
\* outside its window: an earlier run claimed it and stopped.
C19_Witness ==
    /\ p_pc = "advance"
    /\ push_result = "ok"
    /\ \E i \in RowIds(queue_log[Cur]) :
          /\ queue_log[Cur][i] = CLAIMED
          /\ ShardLog(Cur)[i].time > window[2]
          /\ \E t \in call_logs[Cur] : t.callid = ShardLog(Cur)[i].callid

\* C20: when a statement of push_data_to_db fails, the records whose INSERT
\* had already succeeded in that run are in the destination.
C20_EarlierInsertsSurvive ==
    (p_pc = "advance" /\ push_result = "failed")
    => \A rec \in push_done : \E t \in call_logs[Cur] : t.callid = rec.callid

-----------------------------------------------------------------------------
(* C13: once every pipeline of the concurrent job has finished and main has
   returned, the descriptors reported as failed (logged "Error") are exactly
   those whose pipeline failed at connection, query or persistence, and no
   descriptor whose pipeline failed was reported as processed. *)
C13_FailedAreReported ==
    e_pc = "done" =>
        /\ e_errors = e_failed
        /\ e_processed \cap e_failed = {}

(* C14: in the concurrent job at most max_workers pipelines are executing at
   any moment, however many descriptors the registry returned, and the
   pipeline of every descriptor is eventually started. *)
Started(i) == futures[i] \notin {"unsubmitted", "queued"}

C14_BoundedPool ==
    /\ [](Cardinality(Executing) <= max_workers)
    /\ <>[](\A i \in 1..e_urls : Started(i))

C14_Witness ==
    /\ e_urls > max_workers
    /\ Cardinality(Executing) = max_workers
    /\ \E i \in 1..e_urls : futures[i] = "queued"

-----------------------------------------------------------------------------
(* Errors of the batch job (Spec) *)

\* C21: when the registry cannot be read (get_active_callcenter_db_urls
\* returns []), the invocation ends with no pipeline started, no connection
\* attempted, no flag changed and nothing written; no other error ends the
\* invocation: main never ends on an exception.
C21_OnlyRegistryIsFatal ==
    [][/\ (m_pc # "loop" /\ m_pc' = "done" /\ db_urls' = <<>>) =>
             /\ started' = {}
             /\ p_pc' = "none"
             /\ g_tried' = g_tried
             /\ call_logs' = call_logs
             /\ \A s \in Shards : \A i \in RowIds(queue_log[s]) :
                   queue_log'[s][i] = queue_log[s][i]
       /\ m_pc' # "raised"]_vars

-----------------------------------------------------------------------------
(* Field derivation of the reconstructors (SpecRecon) *)

\* The rows of call id are exactly the ENTERQUEUE row e, the CONNECT row c
\* and the completion row p.
AnsweredCall(id, e, c, p) ==
    /\ CallRows(id) = {e, c, p}
    /\ e.event = "ENTERQUEUE"
    /\ c.event = "CONNECT"
    /\ p.event \in CompleteEvents

-----------------------------------------------------------------------------
(* Termination of the concurrent job (Spec03Retry) *)

\* Every pipeline of the invocation has ended and main has returned.
JobEnded ==
    /\ e_pc = "done"
    /\ \A i \in 1..e_urls : futures[i] \in {"returned", "raised"}

\* C23: the job terminates: no connector makes more than retries attempts,
\* and under fair scheduling every pipeline ends, in success or in failure,
\* and main then returns; a shard every attempt to which fails gives up when
\* its attempts are spent.
C23_JobTerminates ==
    /\ [](\A i \in Urls : e_attempt[i] <= retries)
    /\ <>[]JobEnded

\* The job has ended with a shard that spent all its connection attempts and
\* a shard that was connected to at once.
C23_Witness ==
    /\ JobEnded
    /\ \E i \in 1..e_urls : e_attempt[i] = retries /\ i \in e_failed
    /\ \E i \in 1..e_urls : e_attempt[i] = 0 /\ i \notin e_failed

-----------------------------------------------------------------------------
(* Hold cycles (SpecHold) *)

\* The group is HOLD, UNHOLD, HOLD, UNHOLD, ... followed by one completion
\* event, with at least two HOLD rows; the last HOLD may have no UNHOLD.
HoldCycles(group) ==
    /\ Len(group) >= 4
    /\ group[Len(group)].event \in CompleteEvents
    /\ \A i \in 1..(Len(group) - 1) :
          group[i].event = IF i % 2 = 1 THEN "HOLD" ELSE "UNHOLD"

\* The sum over the cycles: each HOLD row with the row that follows it, the
\* UNHOLD of its cycle or, for a last HOLD without UNHOLD, the completion.
RECURSIVE CycleSum(_, _)
CycleSum(group, i) ==
    IF i >= Len(group) THEN 0
    ELSE (group[i + 1].time - group[i].time) + CycleSum(group, i + 2)

\* C24: for a call with several hold cycles followed by a completion event,
\* find_hold_time returns the sum of (UNHOLD - HOLD) over all the cycles, not
\* only the last one, and a last HOLD that has no UNHOLD is closed by the
\* time of the completion event.
C24_AllCyclesCount ==
    (h_result # NaT /\ HoldCycles(h_group)) => h_result = CycleSum(h_group, 1)

\* find_hold_time has returned for two closed cycles of positive length
\* followed by the completion.
C24_Witness ==
    /\ h_result # NaT
    /\ HoldCycles(h_group)
    /\ Len(h_group) = 5
    /\ h_group[2].time > h_group[1].time
    /\ h_group[4].time > h_group[3].time
    /\ h_result = (h_group[2].time - h_group[1].time) + (h_group[4].time - h_group[3].time)

-----------------------------------------------------------------------------
(* Duplicate events and missing events (SpecRecon) *)

\* Call id has two rows or more of one kind: CONNECT, or completion.
HasDuplicateKind(id) ==
    \/ Cardinality({row \in CallRows(id) : row.event = "CONNECT"}) >= 2
    \/ Cardinality({row \in CallRows(id) : row.event \in CompleteEvents}) >= 2

\* C25: a call with two or more events of one kind (two CONNECT rows, or two
\* completion rows) still gets a single record, whose fields of that kind
\* come from the row with the earliest time (stated for the calls that
\* entered the queue once, have no abandonment row and no two rows of one
\* kind at the same time).
C25_EarliestDuplicateWins ==
    r_ran => \A id \in Calls :
        (/\ Cardinality({row \in CallRows(id) : row.event = "ENTERQUEUE"}) = 1
         /\ \A row \in CallRows(id) : row.event \notin AbandonEvents
         /\ \A a \in CallRows(id) : \A b \in CallRows(id) :
               (a # b /\ (a.event = b.event \/ {a.event, b.event} \subseteq CompleteEvents))
               => a.time # b.time
         /\ HasDuplicateKind(id))
        => /\ Cardinality({rec \in r_records : rec.callid = id}) = 1
           /\ \A rec \in r_records : \A row \in CallRows(id) :
                 rec.callid = id =>
                    /\ row.event = "CONNECT" =>
                          (rec.CONNECT # NaT /\ rec.CONNECT <= row.time)
                    /\ row.event \in CompleteEvents =>
                          (rec.COMPLETE # NaT /\ rec.COMPLETE <= row.time)

\* Call id entered the queue and was never connected.
NeverConnected(id) ==
    /\ \E row \in CallRows(id) : row.event = "ENTERQUEUE"
    /\ \A row \in CallRows(id) : row.event # "CONNECT"

\* The fields of a record of a call that was never connected.
NeverConnectedFields(rec) ==
    /\ rec.CONNECT = NaT
    /\ IF \E row \in CallRows(rec.callid) : row.event \in AbandonEvents
       THEN \E row \in CallRows(rec.callid) :
               row.event \in AbandonEvents /\ rec.waited_duration = row.data3
       ELSE rec.waited_duration = NaT
    /\ (\A row \in CallRows(rec.callid) : row.event \notin CompleteEvents)
          => rec.call_duration = 0
    /\ (\A row \in CallRows(rec.callid) : row.event \notin {"HOLD", "UNHOLD"})
          => rec.hold_duration = 0

\* C26: the record of a call with ENTERQUEUE and no CONNECT has connect null,
\* waited_duration equal to the payload 3 of its ABANDON or EXITEMPTY row,
\* or null when it has none (never 0 by default), call_duration 0 when the
\* call has no completion row and hold_duration 0 when it has no hold row;
\* in both reconstructors.
C26_NeverConnectedRecord ==
    \A id \in Calls :
        NeverConnected(id) =>
           /\ r_ran =>
                 /\ \E rec \in r_records : rec.callid = id
                 /\ \A rec \in r_records : rec.callid = id => NeverConnectedFields(rec)
           /\ r_ran03 = "returned" =>
                 /\ \E rec \in r_records03 : rec.callid = id
                 /\ \A rec \in r_records03 : rec.callid = id => NeverConnectedFields(rec)

-----------------------------------------------------------------------------
(* Extraction (Spec) *)

\* The calls the claim-and-fetch strategy selects on shard s: those with a
\* CLAIMED row.
SelectedByFlag(s, flags) ==
    {ShardLog(s)[j].callid : j \in {k \in RowIds(flags) : flags[k] = CLAIMED}}

\* The calls the window strategy selects among the first n rows of shard s:
\* those with a terminal event in the window.
SelectedByWindow(s, n, w) ==
    {ShardLog(s)[j].callid :
        j \in {k \in 1..n : /\ ShardLog(s)[k].event \in TerminalEvents
                            /\ w[1] <= ShardLog(s)[k].time
                            /\ ShardLog(s)[k].time <= w[2]}}

\* C27: what the extractor fetches holds every event of every selected call,
\* the non-terminal events and the events outside the window included, and no
\* event of a call that was not selected; for the fetch by flag of test04.py
\* (the step from "fetch" to "process") and for the fetch by window of
\* test03.py on the same rows.
C27_WholeCallsExtracted ==
    [][(p_pc = "fetch" /\ p_pc' = "process") =>
          /\ DOMAIN call_log_data' = RowIds(queue_log[Cur])
          /\ \A i \in RowIds(queue_log[Cur]) :
                (call_log_data'[i] > 0)
                <=> (ShardLog(Cur)[i].callid \in SelectedByFlag(Cur, queue_log[Cur]))
          /\ \A i \in RowIds(queue_log[Cur]) :
                (FetchWindow03(Cur, Len(queue_log[Cur]), window[1], window[2])[i] > 0)
                <=> (ShardLog(Cur)[i].callid
                        \in SelectedByWindow(Cur, Len(queue_log[Cur]), window))]_vars

\* A fetch has returned a non-terminal event that lies before the window,
\* from a shard that also holds an event of a call that was not selected.
C27_Witness ==
    /\ p_pc = "process"
    /\ \E i \in DOMAIN call_log_data :
          /\ call_log_data[i] > 0
          /\ ShardLog(Cur)[i].event \notin TerminalEvents
          /\ ShardLog(Cur)[i].time < window[1]
    /\ \E i \in DOMAIN call_log_data : call_log_data[i] = 0

-----------------------------------------------------------------------------
(* Order of the steps of a run (Spec) *)

\* The steps of connect_and_process that may follow one another.
StepOrder ==
    {<<"none", "connect">>, <<"connect", "sleep">>, <<"sleep", "connect">>,
     <<"sleep", "exhausted">>, <<"connect", "claim">>, <<"claim", "fetch">>,
     <<"fetch", "process">>, <<"process", "push">>, <<"push", "advance">>}

\* C28: within a run the steps follow one another in the order connect,
\* claim, fetch, reconstruct, persist, watermark advance; no step is executed
\* after an earlier step of the run failed (a run whose push failed advances
\* no watermark); and no watermark is advanced before the persistence attempt
\* of the run.
C28_StepsInOrder ==
    [][/\ (p_pc' # p_pc /\ p_pc' # "none") => <<p_pc, p_pc'>> \in StepOrder
       /\ \A s \in Shards : \A i \in RowIds(queue_log[s]) :
             (queue_log[s][i] # DONE /\ queue_log'[s][i] = DONE)
             => (p_pc = "advance" /\ s = Cur /\ push_result = "ok")]_vars

-----------------------------------------------------------------------------
(* Replay after a stop between persistence and watermark advance (Spec) *)

\* C29: when a run stopped after push_data_to_db committed and before the
\* watermark advance, the next run reconstructs the same calls again; its
\* push leaves the stored row of every such call as it was, adds no second
\* row for it, and the advance that follows marks the rows DONE without
\* touching the destination.
C29_ReplayIsHarmless ==
    [][/\ (p_pc = "push" /\ p_pc' = "advance") =>
             \A rec \in record_of_calls : \A t \in call_logs[Cur] :
                 rec.callid = t.callid =>
                    {u \in call_logs'[Cur] : u.callid = t.callid} = {t}
       /\ (p_pc = "advance" /\ p_pc' = "none" /\ m_pc' = "loop") =>
             /\ call_logs' = call_logs
             /\ queue_log' # queue_log =>
                   \A i \in RowIds(queue_log[Cur]) :
                       queue_log[Cur][i] = CLAIMED => queue_log'[Cur][i] = DONE]_vars

\* A replay is about to push: the only terminal row of a call is CLAIMED,
\* the destination already holds the row of that call (the run that claimed
\* the row committed its push and advanced nothing), and this run has
\* rebuilt a record for the call.
C29_Witness ==
    /\ p_pc = "push"
    /\ \E i \in RowIds(queue_log[Cur]) :
          /\ queue_log[Cur][i] = CLAIMED
          /\ \A j \in RowIds(queue_log[Cur]) :
                (/\ ShardLog(Cur)[j].callid = ShardLog(Cur)[i].callid
                 /\ ShardLog(Cur)[j].event \in TerminalEvents) => j = i
          /\ \E t \in call_logs[Cur] : t.callid = ShardLog(Cur)[i].callid
          /\ \E rec \in record_of_calls : rec.callid = ShardLog(Cur)[i].callid

\* C30: with two instances of the job working on one shard, the UPDATE to
\* flag = 1 gives each row to one instance only, yet the fetch of either
\* instance returns every row of every call that has a row some instance claimed
\* and has not yet advanced, whichever instance claimed it; so both instances
\* can extract and process the same call (C30_Witness).
C30_FetchIgnoresClaimer ==
    /\ [](o_claimed[1] \cap o_claimed[2] = {})
    /\ [][\A k \in Instances :
            (o_pc[k] = "fetch" /\ o_pc'[k] = "process") =>
                \A m \in Instances : \A j \in o_claimed[m] :
                    queue_log[o_shard][j] = CLAIMED =>
                        \A i \in RowIds(queue_log[o_shard]) :
                            ShardLog(o_shard)[i].callid = ShardLog(o_shard)[j].callid
                                => o_data'[k][i] > 0]_vars

\* Both instances have processed a call whose only terminal row the first
\* instance claimed and the second did not.
C30_Witness ==
    /\ \A k \in Instances : o_pc[k] \in {"push", "advance", "done"}
    /\ \E i \in o_claimed[1] \ o_claimed[2] :
          /\ \A j \in RowIds(queue_log[o_shard]) :
                (/\ ShardLog(o_shard)[j].callid = ShardLog(o_shard)[i].callid
                 /\ ShardLog(o_shard)[j].event \in TerminalEvents) => j = i
          /\ \A k \in Instances :
                /\ i \in DOMAIN o_data[k]
                /\ o_data[k][i] > 0
                /\ \E rec \in o_records[k] : rec.callid = ShardLog(o_shard)[i].callid

\* C31: in the concurrent job the collecting loop is handed the future of a
\* submitted pipeline at most once, and only when the pipeline has finished; a
\* pipeline is logged as processed or as an error, never both, exactly when its
\* future was handed over; and once main has returned every submitted pipeline
\* has finished and was handed over exactly once.
C31_ObservedExactlyOnce ==
    /\ \A i \in Urls :
          /\ e_yields[i] <= 1
          /\ e_yields[i] = 1 <=> i \in e_processed \cup e_errors
          /\ i \in e_processed => futures[i] = "returned"
          /\ i \in e_errors => futures[i] = "raised"
          /\ i > e_urls => e_yields[i] = 0
    /\ e_processed \cap e_errors = {}
    /\ (e_pc = "done" /\ e_urls > 0) =>
          \A i \in 1..e_urls :
             /\ futures[i] \in {"returned", "raised"}
             /\ e_yields[i] = 1

\* main has returned after at least three pipelines, of which one returned and
\* one raised.
C31_Witness ==
    /\ e_pc = "done"
    /\ e_urls >= 3
    /\ e_processed # {}
    /\ e_errors # {}
    /\ \A i \in 1..e_urls : e_yields[i] = 1

\* C32: a row whose event is not terminal has flag UNCLAIMED in every state,
\* and a row leaves UNCLAIMED only in the claim step of a run on its shard
\* whose window holds the time of the row; so a terminal row outside every
\* window that was run is UNCLAIMED too.
C32_OnlyTerminalRowsLeaveUnclaimed ==
    /\ [](\A s \in Shards : \A i \in RowIds(queue_log[s]) :
             ShardLog(s)[i].event \notin TerminalEvents => queue_log[s][i] = UNCLAIMED)
    /\ [][\A s \in Shards : \A i \in RowIds(queue_log[s]) :
             (queue_log[s][i] = UNCLAIMED /\ queue_log'[s][i] # UNCLAIMED) =>
                 /\ ShardLog(s)[i].event \in TerminalEvents
                 /\ m_pc = "loop" /\ p_pc = "claim" /\ s = Cur
                 /\ window[1] <= ShardLog(s)[i].time
                 /\ ShardLog(s)[i].time <= window[2]]_vars

\* A run over the window <<1, 2>> has finished a shard: the terminal row in the
\* window is DONE, the ENTERQUEUE row of the same call and the terminal row
\* after the window are UNCLAIMED.
C32_Witness ==
    /\ window = <<1, 2>>
    /\ \E s \in completed : \E i, j, k \in RowIds(queue_log[s]) :
          /\ queue_log[s][i] = DONE
          /\ ShardLog(s)[j].event = "ENTERQUEUE"
          /\ ShardLog(s)[j].callid = ShardLog(s)[i].callid
          /\ queue_log[s][j] = UNCLAIMED
          /\ ShardLog(s)[k].event \in TerminalEvents
          /\ ShardLog(s)[k].time > window[2]
          /\ queue_log[s][k] = UNCLAIMED

\* C33: while get_database_connection is at work for a shard, and from its
\* failure (malformed descriptor, or every attempt failed) to the end of the
\* invocation, no step changes the flag of a row of that shard or its
\* destination table; and a shard whose connection failed is not completed.
C33_FailedConnectionLeavesShard ==
    /\ [](\A s \in conn_failed : s \notin completed)
    /\ [][\A s \in Shards :
             (\/ s \in conn_failed \cup conn_failed'
              \/ m_pc = "loop" /\ p_pc \in {"connect", "sleep", "exhausted"} /\ Cur = s)
             => /\ call_logs'[s] = call_logs[s]
                /\ \A i \in RowIds(queue_log[s]) : queue_log'[s][i] = queue_log[s][i]]_vars

\* The connection of a run has failed after all its attempts, for a shard
\* that holds a terminal row of the window, still UNCLAIMED, and whose
\* destination is empty.
C33_Witness ==
    /\ m_pc = "raised"
    /\ g_attempt = retries
    /\ \E s \in conn_failed :
          /\ pbx[s] = "ok"
          /\ call_logs[s] = {}
          /\ \E i \in RowIds(queue_log[s]) :
                /\ ShardLog(s)[i].event \in TerminalEvents
                /\ window[1] <= ShardLog(s)[i].time
                /\ ShardLog(s)[i].time <= window[2]
                /\ queue_log[s][i] = UNCLAIMED

\* The records of the frame whose callid has no row in the destination of the
\* current shard.
AbsentRecords ==
    {rec \in record_of_calls : \A t \in call_logs[Cur] : t.callid # rec.callid}

\* push_data_to_db returns to connect_and_process, which goes on to step 3.
PushReturns == p_pc = "push" /\ p_pc' = "advance" /\ m_pc' = m_pc

C35_EachRowAtMostOnce ==
    \A i \in DOMAIN call_log_data : call_log_data[i] <= 1

\* C36: every step by which connect_and_process returns or raises after a
\* successful connect (the process not being stopped from outside) closes the
\* cursor and the connection, which were open until then.
C36_ClosedOnEveryPath ==
    [][(/\ p_pc \in {"claim", "fetch", "process", "push", "advance"}
        /\ p_pc' = "none"
        /\ m_pc' # "killed")
       => (p_conn = "open" /\ p_conn' = "closed")]_vars

====
